---- MODULE Spec2Model ----
(***************************************************************************)
(* One controlled device (a colour-temperature light) of dynamic_scenes:   *)
(* the scene stack (SceneAbility), the time offset (TimeshiftAbility), the *)
(* change detector (StateAbility), the update scheduler (UpdateAbility and *)
(* entity_updates) and the coordinator (Entity) that composes them.        *)
(*                                                                         *)
(* Scheduling: every command, the periodic tick and invalidate() are       *)
(* synchronous code on the asyncio event loop, so each is one atomic       *)
(* action.  An update task suspends at each await of the device write, so  *)
(* it is a sequence of steps.  A live-state notification is handled any    *)
(* time after the device changed.                                          *)
(***************************************************************************)
EXTENDS Integers, Sequences, FiniteSets, TLC

\* ----- program constants -------------------------------------------------
MAX_PRIORITY == 100
DAY == 86400
HALF_DAY == 43200
SCENE_OFF == "off"
SCENE_CUSTOM == "custom"
BRIGHTNESS_MIN == 0
BRIGHTNESS_MAX == 255
COLOR_TEMP_MIN == 153
COLOR_TEMP_MAX == 500

\* ----- bounds of the model -----------------------------------------------
MaxQueue == 1
MaxTasks == 2

\* ----- attribute kinds and values ----------------------------------------
BRIGHTNESS == "brightness"
COLOR_TEMP == "color_temp"
LIGHT_STATE == "light_state"

SUPPORTED_ATTRIBUTES == {BRIGHTNESS, COLOR_TEMP, LIGHT_STATE}

Error == [error |-> TRUE]

NoState == [k \in {} |-> 0]

\* Attr: a value tagged with a time of day
Attr(v, t) == [value |-> v, time |-> t]

\* Attr._validate_value of each kind
ValidateValue(kind, v) ==
    CASE kind = BRIGHTNESS  -> BRIGHTNESS_MIN <= v /\ v <= BRIGHTNESS_MAX
      [] kind = COLOR_TEMP  -> COLOR_TEMP_MIN <= v /\ v <= COLOR_TEMP_MAX
      [] kind = LIGHT_STATE -> v \in {"on", "off"}

\* Attr.__eq__: same kind (the key) and same value; the time is not compared
AttrEq(a, b) == a.value = b.value

\* rounding of num/den to the nearest integer, den > 0, num >= 0
RoundNearest(num, den) == (2 * num + den) \div (2 * den)

\* int(): truncation toward zero of num/den, den > 0
Trunc(num, den) == IF num >= 0 THEN num \div den ELSE -((-num) \div den)

\* the interpolation measured from the next keyframe back to the previous
InterpolateValueFromNext(kind, p, n, num, den) ==
    IF kind = LIGHT_STATE THEN n
    ELSE Trunc(n * den + (p - n) * num, den)

\* Brightness/ColorTemp._interpolate_value: int(p + (n - p) * ratio),
\* State._interpolate_value: the previous value; ratio = num/den
InterpolateValue(kind, p, n, num, den) ==
    IF kind = LIGHT_STATE THEN p
    ELSE Trunc(p * den + (n - p) * num, den)

\* the interpolation over the keyframe times as they are
NormalizeTimesLeftOut(time, prev_time, next_time) == <<prev_time, next_time>>

\* the normalisation that moves the next keyframe a day forward whatever the time
NormalizeTimesForward(time, prev_time, next_time) ==
    IF prev_time > next_time THEN <<prev_time, next_time + DAY>>
    ELSE <<prev_time, next_time>>

\* Attr._normalize_times_for_interpolation
NormalizeTimes(time, prev_time, next_time) ==
    IF prev_time > next_time
    THEN IF time >= prev_time THEN <<prev_time, next_time + DAY>>
                              ELSE <<prev_time - DAY, next_time>>
    ELSE <<prev_time, next_time>>

\* Attr.interpolate: a new Attr, or Error when the new value fails validation
Interpolate(kind, prev_attr, next_attr, time) ==
    LET nt == NormalizeTimes(time, prev_attr.time, next_attr.time)
        prev_time == nt[1]
        next_time == nt[2]
        num == IF prev_time # next_time THEN time - prev_time ELSE 0
        den == IF prev_time # next_time THEN next_time - prev_time ELSE 1
        new_time == (prev_time + time) % DAY
        new_value == InterpolateValue(kind, prev_attr.value, next_attr.value, num, den)
    IN IF ValidateValue(kind, new_value) THEN Attr(new_value, new_time) ELSE Error

\* bisect.bisect_left: a keyframe at the time itself counts as the next one
BisectLeft(attr_scene, time) ==
    Cardinality({i \in 1..Len(attr_scene) : attr_scene[i].time < time})

\* bisect.bisect_right over the sorted keyframe times
BisectRight(attr_scene, time) ==
    Cardinality({i \in 1..Len(attr_scene) : attr_scene[i].time <= time})

\* AttrScene.get_attr_at_time
AttrSceneGetAttrAtTime(kind, attr_scene, time) ==
    LET idx == BisectRight(attr_scene, time)
        n == Len(attr_scene)
        wrap == idx = 0 \/ idx = n
        prev_attr == IF wrap THEN attr_scene[n] ELSE attr_scene[idx]
        next_attr == IF wrap THEN attr_scene[1] ELSE attr_scene[idx + 1]
    IN Interpolate(kind, prev_attr, next_attr, time)

\* EntityScene.get_attr_at_time: one Attr per kind of the scene, or Error
\* when an interpolation raised
GetAttrAtTime(scene, time) ==
    LET attrs == [k \in DOMAIN scene.scene |->
                    AttrSceneGetAttrAtTime(k, scene.scene[k], time)]
    IN IF \E k \in DOMAIN attrs : attrs[k] = Error THEN Error ELSE attrs

\* ----- the device's configuration ----------------------------------------
\* SceneAbility._create_off_scene: an off keyframe for every supported kind
\* that has an OFF_VALUE (colour temperature has none)
OffScene ==
    [name |-> SCENE_OFF, priority |-> 0,
     scene |-> (BRIGHTNESS :> <<Attr(0, 0)>>) @@ (LIGHT_STATE :> <<Attr("off", 0)>>)]

\* the scenes loaded for the device
UserScenes ==
    { [name |-> "night", priority |-> 10,
       scene |-> (BRIGHTNESS :> <<Attr(100, 0)>>)],
      [name |-> "evening", priority |-> 40,
       scene |-> (BRIGHTNESS :> <<Attr(0, 21600), Attr(200, 64800)>>)
                 @@ (COLOR_TEMP :> <<Attr(200, 0), Attr(400, 43200)>>)],
      [name |-> "day", priority |-> 70,
       scene |-> (BRIGHTNESS :> <<Attr(0, 21600), Attr(240, 64800)>>)],
      [name |-> "alarm", priority |-> 100,
       scene |-> (BRIGHTNESS :> <<Attr(255, 0)>>) @@ (LIGHT_STATE :> <<Attr("on", 0)>>)] }

SceneNames == {s.name : s \in UserScenes}

\* names a caller may pass: the known scenes, the reserved names, an unknown one
NameArgs == SceneNames \cup {SCENE_OFF, SCENE_CUSTOM, "unknown"}

\* a smaller choice of names
FewNames == {"evening"}


EntityId == "light.lamp"

\* offsets a caller may pass to set() and shift()
TimeArgs == {0}

\* offsets passed while the wall clock moves
ClockTimeArgs == {-21600, HALF_DAY}

\* a wider choice of arguments of set(): both ends of the interval, values
\* far outside it, odd values
WideSetArgs == {-172801, -HALF_DAY - 1, -HALF_DAY, -1, 0, 39600, HALF_DAY - 1, HALF_DAY, 86399, 129600}

\* a wider choice of arguments of shift(): multiples of half an hour
WideShiftArgs == {-172800, -HALF_DAY, -1800, 0, HALF_DAY, 46800, 90000}

\* wall-clock times of day the model samples
NowSamples == {0, 21600, HALF_DAY}

\* a full live state of the device: one Attr (time 0) per supported kind
DevState(b, ct, ls) ==
    (BRIGHTNESS :> Attr(b, 0)) @@ (COLOR_TEMP :> Attr(ct, 0)) @@ (LIGHT_STATE :> Attr(ls, 0))

\* the live state at construction
InitialDevState == DevState(0, 400, "off")

\* the states somebody else may put the device in
ExternalStates == {DevState(100, 400, "on")}

Slots == 1..MaxTasks

\* a task slot: its state, the state to write, the service calls left; stale:
\* a newer request was scheduled while it waited
FreeTask == [st |-> "free", target |-> NoState, left |-> {}, stale |-> FALSE]

NoTask == 0

NoEntry == -1

NoLookup == -DAY

\* nothing to report: the initial state, a step of an update task, a change
\* of the device
NoOp ==
    [op |-> "none", arg |-> "", num |-> 0, notified |-> 0, ts_notified |-> 0, scheduled |-> FALSE,
     replaced |-> 0, error |-> "none", lookup |-> NoLookup, event |-> "none",
     after_failure |-> FALSE]

\* the event loop thread, which runs the commands, the tick and the update
\* tasks, and the executor thread, which runs the state-change listener (a
\* plain function, not a @callback)
LOOP == "loop"

EXECUTOR == "executor"

Threads == {LOOP, EXECUTOR}

\* a thread outside every handler; inside one: the step it is at, the
\* operation and its arguments, the scene and the timeshift it has read, the
\* state it carries
Idle == [at |-> "idle", op |-> "", arg |-> "", num |-> 0, scene |-> "", ts |-> 0, state |-> NoState]

\* ----- timelines looked up on their own -----------------------------------
\* the most keyframes a timeline has
MaxKeyframes == 3

\* times of day of the keyframes: midnight, 10 s, 60 s, 01:00, 23:00
KeyTimes == {0, 10, 60, 3600, 82800}

BrightnessValues == {0, 100, 200, 255}

ColorTempValues == {153, 326, 500}

LightStateValues == {"on", "off"}

\* times of day looked up: keyframe times, times between two keyframes,
\* times before the first and after the last keyframe, the last second
QueryTimes == {0, 5, 10, 30, 60, 100, 1800, 3600, 43200, 82800, 86399}

\* AttrScene._validate_attr_scene: at least one keyframe, times strictly
\* ascending (the kind is the same by construction)
ValidateAttrScene(attr_scene) ==
    /\ Len(attr_scene) >= 1
    /\ \A i \in 2..Len(attr_scene) : attr_scene[i - 1].time < attr_scene[i].time

\* the AttrScene objects of one kind that the constructor accepts
AttrScenes(values) ==
    UNION { {attr_scene \in [1..n -> [value : values, time : KeyTimes]] :
                ValidateAttrScene(attr_scene)} : n \in 1..MaxKeyframes }

\* the pair of keyframes of test_brightness_interpolate
HourScene == <<Attr(50, 0), Attr(150, 3600)>>

NoProbe == [kind |-> "", attr_scene |-> <<>>, time |-> 0, done |-> FALSE, result |-> NoState]

Probe(kind, attr_scene, time) ==
    [kind |-> kind, attr_scene |-> attr_scene, time |-> time, done |-> FALSE,
     result |-> NoState]

\* ----- state -------------------------------------------------------------
VARIABLES
    valid,                  \* Entity._valid
    active_scenes,          \* SceneAbility._active_scenes: the keys, in insertion order
    current_scene,          \* SceneAbility._current_scene: its name
    custom_scene,           \* SceneAbility._custom_scene: its snapshot, or NoState
    timeshift,              \* TimeshiftAbility._timeshift
    now,                    \* wall clock, seconds since midnight
    current_state,          \* StateAbility._current_state
    internal_state_change,  \* StateAbility._internal_state_change
    prev_update_ids,        \* UpdateAbility._prev_update_ids
    pending_updates,        \* _pending_updates[entity id]: NoEntry, or its _task (NoTask: None)
    tasks,                  \* the asyncio tasks created for updates
    ready,                  \* event loop queue of tasks that have not started
    dev,                    \* the device's real state
    notes,                  \* live-state notifications not yet handled
    threads,                \* where each thread is inside a handler, with its locals
    probe,                  \* a pure function on its own: the drawn input and what it returned
    fleet,                  \* Config._entities: the devices by id, and the last batch command
    peer_update,            \* _pending_updates[id of another device]: its task, if any
    update_loop,            \* UpdateCoordinator._task: suspended, or holding the event loop
    last_op                 \* what the last operation did

sceneVars == <<active_scenes, current_scene, custom_scene>>

updVars == <<prev_update_ids, pending_updates, tasks, ready>>

stateVars == <<current_state, internal_state_change>>

envVars == <<dev, notes>>

vars ==
    <<valid, active_scenes, current_scene, custom_scene, timeshift, now, current_state,
      internal_state_change, prev_update_ids, pending_updates, tasks, ready, dev, notes,
      threads, probe, fleet, peer_update, update_loop, last_op>>

\* ----- scene stack helpers -----------------------------------------------
\* the scene object behind a name of the active set
SceneOf(name, custom) ==
    IF name = SCENE_OFF THEN OffScene
    ELSE IF name = SCENE_CUSTOM
    THEN [name |-> SCENE_CUSTOM, priority |-> MAX_PRIORITY,
          scene |-> [k \in DOMAIN custom |-> <<custom[k]>>]]
    ELSE CHOOSE s \in UserScenes : s.name = name

Priority(name) == SceneOf(name, NoState).priority

InSeq(x, seq) == \E i \in 1..Len(seq) : seq[i] = x

\* the pop of the dict's oldest entry instead of the named key
RemoveOldest(seq, x) == Tail(seq)

Remove(seq, x) == SelectSeq(seq, LAMBDA y : y # x)

\* dict assignment d[key] = ...: a present key keeps its position
DictSet(seq, key) == IF InSeq(key, seq) THEN seq ELSE Append(seq, key)

\* the oldest active scene instead of the maximum
GetHighestPrioritySceneOldest(active) ==
    IF active = <<>> THEN SCENE_OFF ELSE active[1]

\* SceneAbility._get_highest_priority_scene: max() keeps the first maximal
\* element in the dict's iteration order; the off scene when the dict is empty
GetHighestPriorityScene(active) ==
    IF active = <<>> THEN SCENE_OFF
    ELSE LET i == CHOOSE i \in 1..Len(active) :
                    /\ \A j \in 1..Len(active) : Priority(active[j]) <= Priority(active[i])
                    /\ \A j \in 1..(i - 1) : Priority(active[j]) < Priority(active[i])
         IN active[i]

\* `scene not in self._active_scenes` of set_scene_inactive: the dict's keys
\* are names and the operand is the EntityScene object, which equals no key
SceneObjectInActive(name, active) == FALSE

\* `scene.name in self._active_scenes` of set_scene_active
SceneNameInActive(name, active) == InSeq(name, active)

\* ----- change detector ---------------------------------------------------
\* the keys of a state in the order the dict is walked
ItemsOf(state) ==
    SelectSeq(<<BRIGHTNESS, COLOR_TEMP, LIGHT_STATE>>, LAMBDA k : k \in DOMAIN state)

\* the loop of has_changed over the items still to compare: it returns at the
\* first key that is missing or whose value differs
RECURSIVE HasChangedFrom(_, _, _)
HasChangedFrom(cur, new_state, keys) ==
    IF keys = <<>> THEN FALSE
    ELSE LET key == Head(keys)
         IN IF key \notin DOMAIN cur THEN TRUE
            ELSE IF ~AttrEq(cur[key], new_state[key]) THEN TRUE
            ELSE HasChangedFrom(cur, new_state, Tail(keys))

\* has_changed with the comparison of the two lengths first
HasChangedByLength(cur, new_state) ==
    \/ Cardinality(DOMAIN new_state) # Cardinality(DOMAIN cur)
    \/ HasChangedFrom(cur, new_state, ItemsOf(new_state))

\* StateAbility.has_changed
HasChanged(cur, new_state) == HasChangedFrom(cur, new_state, ItemsOf(new_state))

\* ----- update scheduler --------------------------------------------------
FreeSlots == {s \in Slots : tasks[s].st = "free"}

\* a cancel that reaches only a task that has not started
CancelTaskWaitingOnly(tk, t) ==
    IF tk[t].st = "scheduled" THEN [tk EXCEPT ![t] = FreeTask] ELSE tk

\* asyncio.Task.cancel(): a task that has not started never runs; a running
\* task gets CancelledError at the await it is suspended in
CancelTask(tk, t) ==
    IF tk[t].st = "scheduled" THEN [tk EXCEPT ![t] = FreeTask]
    ELSE IF tk[t].st = "running" THEN [tk EXCEPT ![t].st = "cancelling"]
    ELSE tk

\* the entry's task left alone
EntryCancelSkipped(tk) == tk

\* _EntityUpdate.cancel on the entry of _pending_updates
EntryCancel(tk) ==
    IF pending_updates \in Slots THEN CancelTask(tk, pending_updates) ELSE tk

\* every request still waiting is superseded by a newer one
MarkStale(tk) ==
    [t \in Slots |-> IF tk[t].st = "scheduled" THEN [tk[t] EXCEPT !.stale = TRUE] ELSE tk[t]]

\* entity_updates.schedule_update and _EntityUpdate.schedule, called by
\* UpdateAbility.schedule_update
ScheduleUpdate(wanted_state) ==
    LET cancelled == EntryCancel(MarkStale(tasks))
        kept == SelectSeq(ready, LAMBDA t : cancelled[t].st = "scheduled")
    IN /\ \E s \in Slots : cancelled[s].st = "free"
       /\ LET s == CHOOSE s \in Slots :
                      /\ cancelled[s].st = "free"
                      /\ \A u \in Slots : cancelled[u].st = "free" => s <= u
          IN /\ tasks' = [cancelled EXCEPT ![s] =
                            [st |-> "scheduled", target |-> wanted_state, left |-> {},
                             stale |-> FALSE]]
             /\ ready' = Append(kept, s)
             /\ pending_updates' = s
       /\ prev_update_ids' = prev_update_ids \cup {EntityId}

\* entity_updates.cancel_update for every id of UpdateAbility.cancel_updates
CancelUpdates ==
    /\ IF EntityId \in prev_update_ids /\ pending_updates # NoEntry
       THEN LET cancelled == EntryCancel(tasks)
            IN /\ tasks' = cancelled
               /\ ready' = SelectSeq(ready, LAMBDA t : cancelled[t].st = "scheduled")
               /\ pending_updates' = NoEntry
       ELSE UNCHANGED <<tasks, ready, pending_updates>>
    /\ UNCHANGED prev_update_ids

\* ----- coordinator -------------------------------------------------------
\* Entity._get_wanted_state: the time handed to the scene is the timeshift
LookupTime(ts) == ts

WantedState(scene_name, custom, ts) == GetAttrAtTime(SceneOf(scene_name, custom), LookupTime(ts))

\* the scheduling decision without the validity check
WillScheduleUnchecked(wanted_state) ==
    /\ wanted_state # Error
    /\ HasChanged(current_state, wanted_state)

\* Entity._update once the wanted state is known: the validity check, the
\* change check, the scheduling
WillSchedule(wanted_state) ==
    /\ wanted_state # Error
    /\ valid
    /\ HasChanged(current_state, wanted_state)

\* the update scheduled whatever the last known live state is
UpdateWithoutChangeCheck(wanted_state) ==
    IF wanted_state # Error /\ valid THEN ScheduleUpdate(wanted_state) ELSE UNCHANGED updVars

\* Entity._update: the scheduling of the wanted state, or the early return
Update(wanted_state) ==
    IF WillSchedule(wanted_state) THEN ScheduleUpdate(wanted_state) ELSE UNCHANGED updVars

\* what an operation did: the callbacks it fired, whether its recompute
\* scheduled an update and how many waiting requests that replaced, the error
\* it raised, the time it looked the scene up at, what a state-change event
\* came to, whether it is the tick that follows a failed write
OpRecord(op, arg, num, notified, ts_notified, recomputed, wanted_state, err, ts) ==
    [op |-> op, arg |-> arg, num |-> num, notified |-> notified, ts_notified |-> ts_notified,
     scheduled |-> recomputed /\ WillSchedule(wanted_state),
     replaced |-> IF recomputed /\ WillSchedule(wanted_state)
                  THEN Cardinality({t \in Slots : tasks[t].st = "scheduled"}) ELSE 0,
     error |-> IF err # "none" THEN err
               ELSE IF recomputed /\ wanted_state = Error THEN "ValueError" ELSE "none",
     lookup |-> IF recomputed THEN LookupTime(ts) ELSE NoLookup,
     event |-> "none",
     after_failure |-> op = "tick" /\ last_op.op = "write_failed"]

Quiet(op, arg, err) == OpRecord(op, arg, 0, 0, 0, FALSE, NoState, err, 0)

\* ----- scene commands ----------------------------------------------------
\* Entity.__on_scene_change_callback: the new winner's value at the timeshift,
\* then _update
OnSceneChange(op, arg, scene_name, custom) ==
    LET wanted_state == WantedState(scene_name, custom, timeshift)
    IN /\ Update(wanted_state)
       /\ last_op' = OpRecord(op, arg, 0, 1, 0, TRUE, wanted_state, "none", timeshift)

\* the priority compared with the off scene's instead of the winner's
OutranksOff(name, current) == Priority(name) > Priority(SCENE_OFF)

\* a tie in priority also takes over
OutranksOrTies(name, current) == Priority(name) >= Priority(current)

\* `scene.priority > self._current_scene.priority` of set_scene_active
Outranks(name, current) == Priority(name) > Priority(current)

\* the input check with the custom scene among the device's scenes and no
\* check of its name
RaisesSceneNameErrorNotCustom(name) ==
    name # SCENE_CUSTOM /\ (name \notin SceneNames \/ name = SCENE_OFF)

\* the input check of set_scene_active and set_scene_inactive: a name that
\* is not one of the device's scenes, or a reserved name
RaisesSceneNameError(name) ==
    name \notin SceneNames \/ name = SCENE_OFF \/ name = SCENE_CUSTOM

\* SceneAbility.set_scene_active
SetSceneActive(name) ==
    /\ IF RaisesSceneNameError(name)
       THEN /\ last_op' = Quiet("set_scene_active", name, "SceneNameError")
            /\ UNCHANGED <<sceneVars, updVars>>
       ELSE IF SceneNameInActive(name, active_scenes)
       THEN /\ last_op' = Quiet("set_scene_active", name, "none")
            /\ UNCHANGED <<sceneVars, updVars>>
       ELSE /\ active_scenes' = DictSet(active_scenes, name)
            /\ UNCHANGED custom_scene
            /\ IF Outranks(name, current_scene)
               THEN /\ current_scene' = name
                    /\ OnSceneChange("set_scene_active", name, name, custom_scene)
               ELSE /\ last_op' = Quiet("set_scene_active", name, "none")
                    /\ UNCHANGED <<current_scene, updVars>>
    /\ UNCHANGED <<update_loop, peer_update, fleet, probe, valid, timeshift, now, threads, stateVars, envVars>>

\* SceneAbility.set_scene_inactive
SetSceneInactive(name) ==
    /\ IF RaisesSceneNameError(name)
       THEN /\ last_op' = Quiet("set_scene_inactive", name, "SceneNameError")
            /\ UNCHANGED <<sceneVars, updVars>>
       ELSE IF ~SceneObjectInActive(name, active_scenes)
       THEN /\ last_op' = Quiet("set_scene_inactive", name, "none")
            /\ UNCHANGED <<sceneVars, updVars>>
       ELSE /\ active_scenes' = Remove(active_scenes, name)
            /\ UNCHANGED custom_scene
            /\ IF name = current_scene
               THEN /\ current_scene' = GetHighestPriorityScene(active_scenes')
                    /\ OnSceneChange("set_scene_inactive", name, current_scene', custom_scene)
               ELSE /\ last_op' = Quiet("set_scene_inactive", name, "none")
                    /\ UNCHANGED <<current_scene, updVars>>
    /\ UNCHANGED <<update_loop, peer_update, fleet, probe, valid, timeshift, now, threads, stateVars, envVars>>

\* the custom activation with the scene-change callback fired
CustomActivateNotifying(op, arg, event, state) ==
    /\ custom_scene' = state
    /\ current_scene' = SCENE_CUSTOM
    /\ active_scenes' = DictSet(active_scenes, SCENE_CUSTOM)
    /\ OnSceneChange(op, arg, SCENE_CUSTOM, state)

\* SceneAbility.set_custom_active: the snapshot becomes the custom scene and
\* the winner; on_scene_change is not called
CustomActivate(op, arg, event, state) ==
    /\ custom_scene' = state
    /\ current_scene' = SCENE_CUSTOM
    /\ active_scenes' = DictSet(active_scenes, SCENE_CUSTOM)
    /\ last_op' = [Quiet(op, arg, "none") EXCEPT !.event = event]
    /\ UNCHANGED updVars

\* Entity.set_custom_active / _set_custom_active: the snapshot is the last
\* known live state
SetCustomActive ==
    /\ CustomActivate("set_custom_active", "", "none", current_state)
    /\ UNCHANGED <<update_loop, peer_update, fleet, probe, valid, timeshift, now, threads, stateVars, envVars>>

\* SceneAbility.set_custom_inactive
SetCustomInactive ==
    /\ IF InSeq(SCENE_CUSTOM, active_scenes)
       THEN /\ active_scenes' = Remove(active_scenes, SCENE_CUSTOM)
            /\ custom_scene' = NoState
            /\ current_scene' = GetHighestPriorityScene(active_scenes')
            /\ OnSceneChange("set_custom_inactive", "", current_scene', NoState)
       ELSE /\ last_op' = Quiet("set_custom_inactive", "", "none")
            /\ UNCHANGED <<sceneVars, updVars>>
    /\ UNCHANGED <<update_loop, peer_update, fleet, probe, valid, timeshift, now, threads, stateVars, envVars>>

\* ----- time offset -------------------------------------------------------
\* the correction left out
CorrectFor12hLeftOut(ts) == ts

\* the correction without the half-day shift before the modulo
CorrectFor12hUnshifted(ts) == (ts % (24 * 3600)) - 12 * 3600

\* TimeshiftAbility._correct_for_12h
CorrectFor12h(ts) == ((ts + 12 * 3600) % (24 * 3600)) - 12 * 3600

\* the callback left out when the offset is the one it was
OnTimeshiftChangeIfNew(op, num) ==
    IF timeshift' = timeshift
    THEN /\ UNCHANGED updVars
         /\ last_op' = OpRecord(op, "", num, 0, 0, FALSE, NoState, "none", 0)
    ELSE LET wanted_state == WantedState(current_scene, custom_scene, timeshift')
         IN /\ Update(wanted_state)
            /\ last_op' = OpRecord(op, "", num, 0, 1, TRUE, wanted_state, "none", timeshift')

\* Entity.__on_timeshift_change_callback: _update(timeshift = the new offset)
OnTimeshiftChange(op, num) ==
    LET wanted_state == WantedState(current_scene, custom_scene, timeshift')
    IN /\ Update(wanted_state)
       /\ last_op' = OpRecord(op, "", num, 0, 1, TRUE, wanted_state, "none", timeshift')

\* TimeshiftAbility.set
SetTimeshift(v) ==
    /\ timeshift' = CorrectFor12h(v)
    /\ OnTimeshiftChange("set_timeshift", v)
    /\ UNCHANGED <<update_loop, peer_update, fleet, probe, valid, sceneVars, now, threads, stateVars, envVars>>

\* TimeshiftAbility.shift
ShiftTimeshift(d) ==
    /\ timeshift' = CorrectFor12h(timeshift + d)
    /\ OnTimeshiftChange("shift_timeshift", d)
    /\ UNCHANGED <<update_loop, peer_update, fleet, probe, valid, sceneVars, now, threads, stateVars, envVars>>

\* ----- periodic tick and invalidation ------------------------------------
\* the wall clock moves on
Clock ==
    /\ now' \in NowSamples \ {now}
    /\ last_op' = NoOp
    /\ UNCHANGED <<update_loop, peer_update, fleet, probe, valid, sceneVars, timeshift, threads, stateVars, updVars, envVars>>

\* UpdateCoordinator._async_update_entities: Entity.update -> _update()
Tick ==
    LET wanted_state == WantedState(current_scene, custom_scene, timeshift)
    IN /\ Update(wanted_state)
       /\ last_op' = OpRecord("tick", "", 0, 0, 0, TRUE, wanted_state, "none", timeshift)
       /\ UNCHANGED <<update_loop, peer_update, fleet, probe, valid, sceneVars, timeshift, now, threads, stateVars, envVars>>

\* Entity.invalidate
Invalidate ==
    /\ IF ~valid
       THEN UNCHANGED <<valid, updVars>>
       ELSE /\ valid' = FALSE
            /\ CancelUpdates
    /\ last_op' = NoOp
    /\ UNCHANGED <<update_loop, peer_update, fleet, probe, sceneVars, timeshift, now, threads, stateVars, envVars>>

\* ----- update task -------------------------------------------------------
\* Attr.__eq__ against a str, as in `state[LightState] == "on"`: the operand
\* is not an instance of the attribute's class
AttrEqStr(attr, str) == FALSE

\* Light._set_entity_state: the kinds to write one service call at a time
\* (turn_on branch), or the single turn_off call
CallsOf(state) ==
    IF LIGHT_STATE \notin DOMAIN state \/ AttrEqStr(state[LIGHT_STATE], "on")
    THEN DOMAIN state \ {LIGHT_STATE}
    ELSE {LIGHT_STATE}

\* the device after one service call: turn_on with one attribute, or turn_off
DevAfterCall(d, state, k) ==
    IF k = LIGHT_STATE
    THEN [d EXCEPT ![LIGHT_STATE] = Attr("off", 0), ![BRIGHTNESS] = Attr(0, 0)]
    ELSE [d EXCEPT ![LIGHT_STATE] = Attr("on", 0), ![k] = Attr(state[k].value, 0)]

Note(state, origin) == [state |-> state, origin |-> origin]

\* the end of a task: _EntityUpdate's finally clears the _task of its own
\* object, which is the entry of _pending_updates only if it was not replaced
TaskEnds(s) ==
    /\ tasks' = [tasks EXCEPT ![s] = FreeTask]
    /\ pending_updates' = IF pending_updates = s THEN NoTask ELSE pending_updates
    /\ UNCHANGED <<prev_update_ids, ready>>

\* _async_execute_delayed_update starts (delay 0): with_internal_state_change
\* sets the flag and calls _set_entity_state
Begin(s) ==
    /\ ready # <<>> /\ Head(ready) = s
    /\ \A t \in Slots : tasks[t].st # "cancelling"
    /\ tasks' = [tasks EXCEPT ![s].st = "running", ![s].left = CallsOf(tasks[s].target)]
    /\ ready' = Tail(ready)
    /\ internal_state_change' = TRUE
    /\ last_op' = NoOp
    /\ UNCHANGED <<update_loop, peer_update, fleet, probe, valid, sceneVars, timeshift, now, threads, current_state, prev_update_ids,
                   pending_updates, envVars>>

\* one service call of the write succeeds
WriteStep(s, k) ==
    /\ tasks[s].st = "running"
    /\ k \in tasks[s].left
    /\ dev' = DevAfterCall(dev, tasks[s].target, k)
    /\ IF dev' # dev
       THEN /\ Len(notes) < MaxQueue
            /\ notes' = Append(notes, Note(dev', "internal"))
       ELSE UNCHANGED notes
    /\ tasks' = [tasks EXCEPT ![s].left = @ \ {k}]
    /\ last_op' = NoOp
    /\ UNCHANGED <<update_loop, peer_update, fleet, probe, valid, sceneVars, timeshift, now, threads, stateVars, prev_update_ids,
                   pending_updates, ready>>

\* a failed write that ends its task and leaves the flag as it is
WriteFailFlagLeft(s) ==
    /\ tasks[s].st = "running"
    /\ tasks[s].left # {}
    /\ UNCHANGED internal_state_change
    /\ TaskEnds(s)
    /\ last_op' = [Quiet("write_failed", "", "none") EXCEPT !.num = s]
    /\ UNCHANGED <<update_loop, peer_update, fleet, probe, valid, sceneVars, timeshift, now, threads, current_state, envVars>>

\* a service call raises: with_internal_state_change logs the error and
\* clears the flag
WriteFail(s) ==
    /\ tasks[s].st = "running"
    /\ tasks[s].left # {}
    /\ internal_state_change' = FALSE
    /\ TaskEnds(s)
    /\ last_op' = [Quiet("write_failed", "", "none") EXCEPT !.num = s]
    /\ UNCHANGED <<update_loop, peer_update, fleet, probe, valid, sceneVars, timeshift, now, threads, current_state, envVars>>

\* the write returns: the finally of with_internal_state_change clears the flag
Finish(s) ==
    /\ tasks[s].st = "running"
    /\ tasks[s].left = {}
    /\ internal_state_change' = FALSE
    /\ TaskEnds(s)
    /\ last_op' = [Quiet("write_done", "", "none") EXCEPT !.num = s]
    /\ UNCHANGED <<update_loop, peer_update, fleet, probe, valid, sceneVars, timeshift, now, threads, current_state, envVars>>

\* a cancelled write that ends its task and leaves the flag as it is
CancelledFlagLeft(s) ==
    /\ tasks[s].st = "cancelling"
    /\ UNCHANGED internal_state_change
    /\ TaskEnds(s)
    /\ last_op' = [Quiet("write_cancelled", "", "none") EXCEPT !.num = s]
    /\ UNCHANGED <<update_loop, peer_update, fleet, probe, valid, sceneVars, timeshift, now, threads, current_state, envVars>>

\* CancelledError reaches a cancelled running task: the finally of
\* with_internal_state_change clears the flag, the write is abandoned
Cancelled(s) ==
    /\ tasks[s].st = "cancelling"
    /\ internal_state_change' = FALSE
    /\ TaskEnds(s)
    /\ last_op' = [Quiet("write_cancelled", "", "none") EXCEPT !.num = s]
    /\ UNCHANGED <<update_loop, peer_update, fleet, probe, valid, sceneVars, timeshift, now, threads, current_state, envVars>>

\* ----- live state --------------------------------------------------------
\* somebody else changes the device
ExternalChange(state) ==
    /\ state # dev
    /\ Len(notes) < MaxQueue
    /\ dev' = state
    /\ notes' = Append(notes, Note(state, "external"))
    /\ last_op' = NoOp
    /\ UNCHANGED <<update_loop, peer_update, fleet, probe, valid, sceneVars, timeshift, now, threads, stateVars, updVars>>

\* StateAbility._handle_state_change_event with
\* Entity.__on_external_state_change_callback
HandleStateChangeEvent ==
    /\ notes # <<>>
    /\ LET translated_state == Head(notes).state
           origin == Head(notes).origin
       IN IF ~HasChanged(current_state, translated_state)
          THEN /\ last_op' = [Quiet("state_change", origin, "none") EXCEPT !.event = "unchanged"]
               /\ UNCHANGED <<sceneVars, stateVars, updVars>>
          ELSE /\ current_state' = translated_state
               /\ IF internal_state_change
                  THEN /\ internal_state_change' = FALSE
                       /\ last_op' = [Quiet("state_change", origin, "none")
                                         EXCEPT !.event = "ignored"]
                       /\ UNCHANGED <<sceneVars, updVars>>
                  ELSE /\ CustomActivate("state_change", origin, "callback", translated_state)
                       /\ UNCHANGED internal_state_change
    /\ notes' = Tail(notes)
    /\ UNCHANGED <<update_loop, peer_update, fleet, probe, valid, timeshift, now, threads, dev>>

\* ----- handlers step by step, with their locks ---------------------------
At(th) == threads[th].at

\* SceneAbility._scene_lock: set_scene_active and set_custom_inactive hold it
\* from the change of the winner until on_scene_change has returned
HoldsSceneLock(th) == th = LOOP /\ At(LOOP) \in {"scene_cb", "scene_update"}

\* TimeshiftAbility._timeshift_lock: set and shift hold it until
\* on_timeshift_change has returned
HoldsTimeshiftLock(th) == th = LOOP /\ At(LOOP) \in {"ts_cb", "ts_update"}

\* StateAbility._state_lock: the listener holds it from its change check until
\* the external-change callback has returned; with_internal_state_change holds
\* it for the whole write
HoldsStateLock(th) ==
    \/ th = EXECUTOR /\ At(EXECUTOR) = "ext_cb"
    \/ th = LOOP /\ \E t \in Slots : tasks[t].st \in {"running", "cancelling"}

\* the scene lock taken for granted
SceneLockFreeAlways(th) == TRUE

\* `with self._scene_lock:` can be entered (the locks are reentrant)
SceneLockFree(th) == \A o \in Threads \ {th} : ~HoldsSceneLock(o)

\* `with self._timeshift_lock:` can be entered
TimeshiftLockFree(th) == \A o \in Threads \ {th} : ~HoldsTimeshiftLock(o)

\* `with self._state_lock:` can be entered
StateLockFree(th) == \A o \in Threads \ {th} : ~HoldsStateLock(o)

\* the loop thread inside a command
InCall(at, op, arg, num, scene, ts, state) ==
    [at |-> at, op |-> op, arg |-> arg, num |-> num, scene |-> scene, ts |-> ts, state |-> state]

\* SceneAbility.set_scene_active up to the call of on_scene_change
SceneActivateEnter(name) ==
    /\ At(LOOP) = "idle"
    /\ name \in SceneNames
    /\ ~SceneNameInActive(name, active_scenes)
    /\ SceneLockFree(LOOP)
    /\ active_scenes' = DictSet(active_scenes, name)
    /\ UNCHANGED custom_scene
    /\ IF Outranks(name, current_scene)
       THEN /\ current_scene' = name
            /\ threads' = [threads EXCEPT ![LOOP] =
                              InCall("scene_cb", "set_scene_active", name, 0, name, 0, NoState)]
            /\ UNCHANGED last_op
       ELSE /\ last_op' = Quiet("set_scene_active", name, "none")
            /\ UNCHANGED <<current_scene, threads>>
    /\ UNCHANGED <<update_loop, peer_update, fleet, probe, valid, timeshift, now, stateVars, updVars, envVars>>

\* SceneAbility.set_custom_inactive up to the call of on_scene_change
CustomDeactivateEnter ==
    /\ At(LOOP) = "idle"
    /\ SceneLockFree(LOOP)
    /\ IF InSeq(SCENE_CUSTOM, active_scenes)
       THEN /\ active_scenes' = Remove(active_scenes, SCENE_CUSTOM)
            /\ custom_scene' = NoState
            /\ current_scene' = GetHighestPriorityScene(active_scenes')
            /\ threads' = [threads EXCEPT ![LOOP] =
                              InCall("scene_cb", "set_custom_inactive", "", 0, current_scene', 0,
                                     NoState)]
            /\ UNCHANGED last_op
       ELSE /\ last_op' = Quiet("set_custom_inactive", "", "none")
            /\ UNCHANGED <<sceneVars, threads>>
    /\ UNCHANGED <<update_loop, peer_update, fleet, probe, valid, timeshift, now, stateVars, updVars, envVars>>

\* Entity.__on_scene_change_callback: scene.get_attr_at_time(self._get_timeshift())
SceneCallbackReadTimeshift ==
    /\ At(LOOP) = "scene_cb"
    /\ TimeshiftLockFree(LOOP)
    /\ threads' = [threads EXCEPT ![LOOP].at = "scene_update",
                                  ![LOOP].ts = timeshift,
                                  ![LOOP].state = WantedState(threads[LOOP].scene, custom_scene,
                                                              timeshift)]
    /\ UNCHANGED <<update_loop, peer_update, fleet, probe, valid, sceneVars, timeshift, now, stateVars, updVars, envVars, last_op>>

\* TimeshiftAbility.set up to the call of on_timeshift_change
TimeshiftSetEnter(v) ==
    /\ At(LOOP) = "idle"
    /\ TimeshiftLockFree(LOOP)
    /\ timeshift' = CorrectFor12h(v)
    /\ threads' = [threads EXCEPT ![LOOP] =
                      InCall("ts_cb", "set_timeshift", "", v, "", timeshift', NoState)]
    /\ UNCHANGED <<update_loop, peer_update, fleet, probe, valid, sceneVars, now, stateVars, updVars, envVars, last_op>>

\* TimeshiftAbility.shift up to the call of on_timeshift_change
TimeshiftShiftEnter(d) ==
    /\ At(LOOP) = "idle"
    /\ TimeshiftLockFree(LOOP)
    /\ timeshift' = CorrectFor12h(timeshift + d)
    /\ threads' = [threads EXCEPT ![LOOP] =
                      InCall("ts_cb", "shift_timeshift", "", d, "", timeshift', NoState)]
    /\ UNCHANGED <<update_loop, peer_update, fleet, probe, valid, sceneVars, now, stateVars, updVars, envVars, last_op>>

\* Entity.update -> _update(): timeshift = self._get_timeshift()
TickReadTimeshift ==
    /\ At(LOOP) = "idle"
    /\ TimeshiftLockFree(LOOP)
    /\ threads' = [threads EXCEPT ![LOOP] = InCall("tick_scene", "tick", "", 0, "", timeshift, NoState)]
    /\ UNCHANGED <<update_loop, peer_update, fleet, probe, valid, sceneVars, timeshift, now, stateVars, updVars, envVars, last_op>>

\* Entity._get_wanted_state(timeshift) of _update: the current_scene property
\* and its value at the timeshift read before
LoopReadScene ==
    /\ At(LOOP) \in {"ts_cb", "tick_scene"}
    /\ SceneLockFree(LOOP)
    /\ threads' = [threads EXCEPT ![LOOP].at = IF At(LOOP) = "ts_cb" THEN "ts_update"
                                                ELSE "tick_update",
                                  ![LOOP].scene = current_scene,
                                  ![LOOP].state = WantedState(current_scene, custom_scene,
                                                              threads[LOOP].ts)]
    /\ UNCHANGED <<update_loop, peer_update, fleet, probe, valid, sceneVars, timeshift, now, stateVars, updVars, envVars, last_op>>

\* the rest of Entity._update: the validity check, has_changed under the state
\* lock, schedule_update; then the command returns and releases its lock
LoopUpdate ==
    /\ At(LOOP) \in {"scene_update", "ts_update", "tick_update"}
    /\ threads[LOOP].state = Error \/ ~valid \/ StateLockFree(LOOP)
    /\ Update(threads[LOOP].state)
    /\ last_op' = OpRecord(threads[LOOP].op, threads[LOOP].arg, threads[LOOP].num,
                           IF At(LOOP) = "scene_update" THEN 1 ELSE 0,
                           IF At(LOOP) = "ts_update" THEN 1 ELSE 0,
                           TRUE, threads[LOOP].state, "none", threads[LOOP].ts)
    /\ threads' = [threads EXCEPT ![LOOP] = Idle]
    /\ UNCHANGED <<update_loop, peer_update, fleet, probe, valid, sceneVars, timeshift, now, stateVars, envVars>>

\* StateAbility._handle_state_change_event up to the external-change callback
ListenerEnter ==
    /\ At(EXECUTOR) = "idle"
    /\ notes # <<>>
    /\ StateLockFree(EXECUTOR)
    /\ LET translated_state == Head(notes).state
           origin == Head(notes).origin
       IN IF ~HasChanged(current_state, translated_state)
          THEN /\ last_op' = [Quiet("state_change", origin, "none") EXCEPT !.event = "unchanged"]
               /\ UNCHANGED <<stateVars, threads>>
          ELSE /\ current_state' = translated_state
               /\ IF internal_state_change
                  THEN /\ internal_state_change' = FALSE
                       /\ last_op' = [Quiet("state_change", origin, "none")
                                         EXCEPT !.event = "ignored"]
                       /\ UNCHANGED threads
                  ELSE /\ threads' = [threads EXCEPT ![EXECUTOR] =
                                         InCall("ext_cb", "state_change", origin, 0, "", 0,
                                                translated_state)]
                       /\ UNCHANGED <<internal_state_change, last_op>>
    /\ notes' = Tail(notes)
    /\ UNCHANGED <<update_loop, peer_update, fleet, probe, valid, sceneVars, timeshift, now, updVars, dev>>

\* Entity.__on_external_state_change_callback: SceneAbility.set_custom_active
\* under the scene lock; then the listener returns and releases the state lock
ListenerCallback ==
    /\ At(EXECUTOR) = "ext_cb"
    /\ SceneLockFree(EXECUTOR)
    /\ CustomActivate("state_change", threads[EXECUTOR].arg, "callback", threads[EXECUTOR].state)
    /\ threads' = [threads EXCEPT ![EXECUTOR] = Idle]
    /\ UNCHANGED <<update_loop, peer_update, fleet, probe, valid, timeshift, now, stateVars, envVars>>

\* a thread is inside a handler and the lock it needs next is held by the
\* other thread
Blocked(th) ==
    IF th = LOOP
    THEN \/ At(LOOP) = "scene_cb" /\ ~TimeshiftLockFree(LOOP)
         \/ At(LOOP) \in {"ts_cb", "tick_scene"} /\ ~SceneLockFree(LOOP)
         \/ /\ At(LOOP) \in {"scene_update", "ts_update", "tick_update"}
            /\ ~(threads[LOOP].state = Error \/ ~valid \/ StateLockFree(LOOP))
    ELSE At(EXECUTOR) = "ext_cb" /\ ~SceneLockFree(EXECUTOR)

\* ----- the update of another device ---------------------------------------
\* the other device has no entry in _pending_updates
NoPeerUpdate == [st |-> "none", target |-> <<>>]

\* wanted states the other device schedules
PeerTargets == {(BRIGHTNESS :> Attr(100, 0))}

\* entity_updates.schedule_update under the other device's id: its own entry
\* is cancelled and replaced
PeerScheduleUpdate(wanted_state) ==
    /\ peer_update.st # "scheduled"
    /\ peer_update' = [st |-> "scheduled", target |-> wanted_state]
    /\ last_op' = NoOp
    /\ UNCHANGED <<update_loop, fleet, probe, valid, sceneVars, timeshift, now, threads, stateVars, updVars,
                   envVars>>

\* the other device's task starts its write
PeerBegin ==
    /\ peer_update.st = "scheduled"
    /\ peer_update' = [peer_update EXCEPT !.st = "running"]
    /\ last_op' = NoOp
    /\ UNCHANGED <<update_loop, fleet, probe, valid, sceneVars, timeshift, now, threads, stateVars, updVars,
                   envVars>>

\* the other device's task ends: its _task is None again
PeerEnd ==
    /\ peer_update.st = "running"
    /\ peer_update' = [peer_update EXCEPT !.st = "ended"]
    /\ last_op' = NoOp
    /\ UNCHANGED <<update_loop, fleet, probe, valid, sceneVars, timeshift, now, threads, stateVars, updVars,
                   envVars>>

\* ----- several devices and the batch commands ----------------------------
DESK == "light.desk"
GONE == "light.gone"

\* the ids Config._entities holds
ConfigEntities == {EntityId, DESK}

\* the ids a service call may name: the loaded devices and one that is not loaded
EntryIds == ConfigEntities \cup {GONE}

MaxEntryIds == 2

\* the entity_id lists of a service call: every order of every choice of ids
EntryIdLists ==
    UNION { {l \in [1..n -> EntryIds] : \A i, j \in 1..n : i # j => l[i] # l[j]} :
            n \in 1..MaxEntryIds }

\* SceneAbility._scenes of each device: the lamp has every scene, the desk
\* light the night scene only
ScenesOfEntity(id) == IF id = EntityId THEN SceneNames ELSE {"night"}

\* scene names and offsets of the batch commands
BatchNames == {"evening", "night"}

BatchTimeArgs == {HALF_DAY}

\* Entity.__init__ of one device of the fleet; target is the wanted state of
\* its last scheduled update
InitEntity(id) ==
    [names |-> ScenesOfEntity(id), active_scenes |-> <<SCENE_OFF>>,
     current_scene |-> SCENE_OFF, custom_scene |-> NoState, timeshift |-> 0,
     target |-> NoState]

NoBatch == [op |-> "none", arg |-> "", num |-> 0, entry_ids |-> <<>>, raised |-> "none"]

\* a call on a device that returned, and one that raised
Returned(e) == [entity |-> e, raised |-> "none"]

Raised(e, err) == [entity |-> e, raised |-> err]

\* Entity._update of a valid device whose live state is the initial one: the
\* lookup raises, or the wanted state is scheduled when it differs
EntityUpdate(e, ts) ==
    LET wanted_state == WantedState(e.current_scene, e.custom_scene, ts)
    IN IF wanted_state = Error THEN Raised(e, "ValueError")
       ELSE IF HasChanged(InitialDevState, wanted_state)
       THEN Returned([e EXCEPT !.target = wanted_state])
       ELSE Returned(e)

\* Entity.set_scene_active -> SceneAbility.set_scene_active
EntitySetSceneActive(e, name) ==
    IF name \notin e.names \/ RaisesSceneNameError(name) THEN Raised(e, "SceneNameError")
    ELSE IF SceneNameInActive(name, e.active_scenes) THEN Returned(e)
    ELSE LET added == [e EXCEPT !.active_scenes = DictSet(@, name)]
         IN IF Outranks(name, e.current_scene)
            THEN EntityUpdate([added EXCEPT !.current_scene = name], e.timeshift)
            ELSE Returned(added)

\* Entity.set_scene_inactive -> SceneAbility.set_scene_inactive
EntitySetSceneInactive(e, name) ==
    IF name \notin e.names \/ RaisesSceneNameError(name) THEN Raised(e, "SceneNameError")
    ELSE IF ~SceneObjectInActive(name, e.active_scenes) THEN Returned(e)
    ELSE LET removed == [e EXCEPT !.active_scenes = Remove(@, name)]
         IN IF name = e.current_scene
            THEN EntityUpdate([removed EXCEPT !.current_scene =
                                   GetHighestPriorityScene(removed.active_scenes)],
                              e.timeshift)
            ELSE Returned(removed)

\* Entity.set_custom_active -> SceneAbility.set_custom_active
EntitySetCustomActive(e) ==
    Returned([e EXCEPT !.custom_scene = InitialDevState,
                       !.current_scene = SCENE_CUSTOM,
                       !.active_scenes = DictSet(@, SCENE_CUSTOM)])

\* Entity.set_custom_inactive -> SceneAbility.set_custom_inactive
EntitySetCustomInactive(e) ==
    IF InSeq(SCENE_CUSTOM, e.active_scenes)
    THEN LET removed == [e EXCEPT !.active_scenes = Remove(@, SCENE_CUSTOM),
                                  !.custom_scene = NoState]
         IN EntityUpdate([removed EXCEPT !.current_scene =
                                GetHighestPriorityScene(removed.active_scenes)],
                         e.timeshift)
    ELSE Returned(e)

\* Entity.set_timeshift -> TimeshiftAbility.set
EntitySetTimeshift(e, v) ==
    EntityUpdate([e EXCEPT !.timeshift = CorrectFor12h(v)], CorrectFor12h(v))

\* Entity.shift_timeshift -> TimeshiftAbility.shift
EntityShiftTimeshift(e, d) ==
    EntityUpdate([e EXCEPT !.timeshift = CorrectFor12h(e.timeshift + d)],
                 CorrectFor12h(e.timeshift + d))

\* the call a batch command makes on each device
EntityCall(e, op, arg, num) ==
    CASE op = "set_scene_active"    -> EntitySetSceneActive(e, arg)
      [] op = "set_scene_inactive"  -> EntitySetSceneInactive(e, arg)
      [] op = "set_custom_active"   -> EntitySetCustomActive(e)
      [] op = "set_custom_inactive" -> EntitySetCustomInactive(e)
      [] op = "set_timeshift"       -> EntitySetTimeshift(e, num)
      [] op = "shift_timeshift"     -> EntityShiftTimeshift(e, num)

\* the except clauses of the loop body: KeyError in all six commands,
\* SceneNameError in the two scene commands
Caught(op, err) ==
    \/ err = "KeyError"
    \/ err = "SceneNameError" /\ op \in {"set_scene_active", "set_scene_inactive"}

\* the loop `for entry_id in entry_ids` of a ServiceCoordinator command: a
\* caught error goes on with the next id, any other error leaves the loop
RECURSIVE ForEachEntry(_, _, _, _, _)
ForEachEntry(devices, entry_ids, op, arg, num) ==
    IF entry_ids = <<>> THEN [devices |-> devices, raised |-> "none"]
    ELSE LET entry_id == Head(entry_ids)
             r == IF entry_id \in DOMAIN devices
                  THEN EntityCall(devices[entry_id], op, arg, num)
                  ELSE [raised |-> "KeyError"]
             after == IF entry_id \in DOMAIN devices
                      THEN [devices EXCEPT ![entry_id] = r.entity]
                      ELSE devices
         IN IF r.raised = "none" \/ Caught(op, r.raised)
            THEN ForEachEntry(after, Tail(entry_ids), op, arg, num)
            ELSE [devices |-> after, raised |-> r.raised]

Batch(op, arg, num, entry_ids) ==
    LET r == ForEachEntry(fleet.devices, entry_ids, op, arg, num)
    IN /\ fleet' = [devices |-> r.devices,
                    last |-> [op |-> op, arg |-> arg, num |-> num,
                              entry_ids |-> entry_ids, raised |-> r.raised]]
       /\ UNCHANGED <<update_loop, peer_update, probe, valid, sceneVars, timeshift, now, stateVars, updVars,
                      envVars,
                      threads, last_op>>

\* ServiceCoordinator.set_scene_active
CoordSetSceneActive(entry_ids, scene) == Batch("set_scene_active", scene, 0, entry_ids)

\* ServiceCoordinator.set_scene_inactive
CoordSetSceneInactive(entry_ids, scene) == Batch("set_scene_inactive", scene, 0, entry_ids)

\* ServiceCoordinator.set_custom_active
CoordSetCustomActive(entry_ids) == Batch("set_custom_active", "", 0, entry_ids)

\* ServiceCoordinator.set_custom_inactive
CoordSetCustomInactive(entry_ids) == Batch("set_custom_inactive", "", 0, entry_ids)

\* ServiceCoordinator.set_timeshift
CoordSetTimeshift(entry_ids, timeshift_arg) == Batch("set_timeshift", "", timeshift_arg, entry_ids)

\* ServiceCoordinator.shift_timeshift
CoordShiftTimeshift(entry_ids, shift) == Batch("shift_timeshift", "", shift, entry_ids)

\* ----- the periodic update loop over the fleet ------------------------------
\* Config.entities is a set built at every call: the orders it may be walked in
EntityOrders ==
    {order \in [1..Cardinality(ConfigEntities) -> ConfigEntities] :
        \A i, j \in DOMAIN order : i # j => order[i] # order[j]}

\* `for entity in self._config.entities: entity.update()` inside the try
\* block: an error raised by a device leaves the loop; updated lists the
\* devices whose update() was called
RECURSIVE UpdateEntities(_, _, _)
UpdateEntities(devices, order, updated) ==
    IF order = <<>> THEN [devices |-> devices, updated |-> updated, raised |-> "none"]
    ELSE LET id == Head(order)
             r == EntityUpdate(devices[id], devices[id].timeshift)
         IN IF r.raised = "none"
            THEN UpdateEntities([devices EXCEPT ![id] = r.entity], Tail(order),
                                Append(updated, id))
            ELSE [devices |-> devices, updated |-> Append(updated, id),
                  raised |-> r.raised]

\* one turn of `while True` of UpdateCoordinator._async_update_entities: the
\* pass over the devices and then `await asyncio.sleep(update_interval)`,
\* which suspends the task; `except Exception` logs an error of the pass and
\* the loop goes on with the next turn without an await
AsyncUpdateEntities ==
    \E order \in EntityOrders :
        LET r == UpdateEntities(fleet.devices, order, <<>>)
        IN /\ fleet' = [devices |-> r.devices,
                        last |-> [op |-> "update", arg |-> "", num |-> 0,
                                  entry_ids |-> r.updated, raised |-> r.raised]]
           /\ update_loop' = IF r.raised = "none" THEN "waiting" ELSE "running"
           /\ UNCHANGED <<peer_update, probe, valid, sceneVars, timeshift, now, stateVars,
                          updVars, envVars, threads, last_op>>

\* ----- a timeline looked up -----------------------------------------------
\* AttrScene.get_attr_at_time of the drawn timeline at the drawn time
ValueAt ==
    /\ ~probe.done
    /\ probe' = [probe EXCEPT
                   !.done = TRUE,
                   !.result = AttrSceneGetAttrAtTime(probe.kind, probe.attr_scene, probe.time)]
    /\ UNCHANGED <<update_loop, peer_update, fleet, valid, sceneVars, timeshift, now, stateVars, updVars,
                   envVars,
                   threads, last_op>>

\* ----- the change check on its own ----------------------------------------
\* values and times of the states compared
CheckedValues(kind) ==
    CASE kind = BRIGHTNESS  -> {0, 100}
      [] kind = COLOR_TEMP  -> {200, 400}
      [] kind = LIGHT_STATE -> {"on", "off"}

CheckedTimes == {0, HALF_DAY}

\* a kind left out, or one Attr of the kind
KindOptions(kind, times) ==
    {<<>>} \cup {<<Attr(v, t)>> : v \in CheckedValues(kind), t \in times}

StateOfOptions(b, ct, ls) ==
    LET Part(kind, option) == IF option = <<>> THEN NoState ELSE (kind :> option[1])
    IN Part(BRIGHTNESS, b) @@ Part(COLOR_TEMP, ct) @@ Part(LIGHT_STATE, ls)

\* the states over some of the kinds: a live state lacks the kinds the device
\* does not report, a wanted state the kinds the scene has no timeline for
PartialStates(times) ==
    {StateOfOptions(b, ct, ls) : b \in KindOptions(BRIGHTNESS, times),
                                 ct \in KindOptions(COLOR_TEMP, times),
                                 ls \in KindOptions(LIGHT_STATE, times)}

CheckProbe(new_state) == [new_state |-> new_state, done |-> FALSE, result |-> FALSE]

\* StateAbility.has_changed called with the drawn candidate
HasChangedCall ==
    /\ ~probe.done
    /\ probe' = [probe EXCEPT !.done = TRUE,
                              !.result = HasChanged(current_state, probe.new_state)]
    /\ UNCHANGED <<update_loop, peer_update, fleet, valid, sceneVars, timeshift, now, stateVars, updVars,
                   envVars, threads, last_op>>

\* ----- a scene constructed -------------------------------------------------
MaxTimelines == 2

\* names and priorities a loader may pass
ConstructNames == {"evening", SCENE_CUSTOM}

ConstructPriorities == {-1, 0, 99, MAX_PRIORITY, MAX_PRIORITY + 1}

\* an AttrScene object: its class, the kind of its keyframes, the keyframes
AttrSceneObject(kind, attr_scene) ==
    [class |-> "AttrScene", type |-> kind, attr_scene |-> attr_scene]

TimelineObjects ==
    {AttrSceneObject(BRIGHTNESS, <<Attr(0, 0)>>),
     AttrSceneObject(BRIGHTNESS, <<Attr(255, 0)>>),
     AttrSceneObject(COLOR_TEMP, <<Attr(326, 0)>>)}

\* the set of AttrScene objects passed to the constructor, in the order the
\* set is walked
SceneArgs == UNION {[1..n -> TimelineObjects] : n \in 0..MaxTimelines}

\* type(obj) and isinstance(obj, cls) on AttrScene objects
TypeOf(obj) == obj.class

IsInstance(obj, cls) == obj.class = cls

\* EntityScene._validate_priority: TRUE when it returns, FALSE when it raises
ValidatePriority(name, priority) ==
    IF name = SCENE_CUSTOM /\ priority # MAX_PRIORITY THEN FALSE
    ELSE IF name # SCENE_CUSTOM /\ ~(0 <= priority /\ priority <= MAX_PRIORITY) THEN FALSE
    ELSE TRUE

\* EntityScene._validate_scene: TRUE when it returns, FALSE when it raises
ValidateScene(scene) ==
    IF Len(scene) = 0 THEN FALSE
    ELSE ~\E i \in 1..Len(scene) : \E j \in 1..Len(scene) :
             i # j /\ ~IsInstance(scene[i], TypeOf(scene[j]))

\* {attr_scene.type: attr_scene for attr_scene in scene}: a later object of a
\* kind replaces an earlier one
SceneDict(scene) ==
    [kind \in {scene[i].type : i \in 1..Len(scene)} |->
        LET last == CHOOSE i \in 1..Len(scene) :
                        /\ scene[i].type = kind
                        /\ \A j \in 1..Len(scene) : scene[j].type = kind => j <= i
        IN scene[last].attr_scene]

Constructed(scene) == [error |-> "none", scene |-> scene]

ConstructProbe(name, priority, scene) ==
    [name |-> name, priority |-> priority, scene |-> scene, done |-> FALSE,
     result |-> Constructed(NoState)]

\* EntityScene.__init__ with the drawn arguments
EntitySceneInit ==
    /\ ~probe.done
    /\ probe' = [probe EXCEPT
                   !.done = TRUE,
                   !.result = IF /\ ValidatePriority(probe.name, probe.priority)
                                 /\ ValidateScene(probe.scene)
                              THEN Constructed(SceneDict(probe.scene))
                              ELSE [error |-> "InputValidationError", scene |-> NoState]]
    /\ UNCHANGED <<update_loop, peer_update, fleet, valid, sceneVars, timeshift, now, stateVars, updVars,
                   envVars, threads, last_op>>

\* ----- initial state -----------------------------------------------------
InitButLiveState ==
    /\ valid = TRUE
    /\ active_scenes = <<SCENE_OFF>>
    /\ current_scene = SCENE_OFF
    /\ custom_scene = NoState
    /\ timeshift = 0
    /\ now = HALF_DAY
    /\ internal_state_change = FALSE
    /\ prev_update_ids = {}
    /\ pending_updates = NoEntry
    /\ tasks = [s \in Slots |-> FreeTask]
    /\ ready = <<>>
    /\ dev = InitialDevState
    /\ notes = <<>>
    /\ threads = [th \in Threads |-> Idle]
    /\ fleet = [devices |-> [id \in ConfigEntities |-> InitEntity(id)], last |-> NoBatch]
    /\ peer_update = NoPeerUpdate
    /\ update_loop = "waiting"
    /\ last_op = NoOp

InitDevice == InitButLiveState /\ current_state = InitialDevState

Init == InitDevice /\ probe = NoProbe

\* ----- specification -----------------------------------------------------
\* the device with the wall clock standing still
Next ==
    \/ \E name \in FewNames : SetSceneActive(name)
    \/ \E name \in FewNames : SetSceneInactive(name)
    \/ SetCustomActive
    \/ SetCustomInactive
    \/ \E v \in TimeArgs : SetTimeshift(v)
    \/ \E d \in TimeArgs : ShiftTimeshift(d)
    \/ Tick
    \/ Invalidate
    \/ \E s \in Slots : Begin(s)
    \/ \E s \in Slots : \E k \in SUPPORTED_ATTRIBUTES : WriteStep(s, k)
    \/ \E s \in Slots : WriteFail(s)
    \/ \E s \in Slots : Finish(s)
    \/ \E s \in Slots : Cancelled(s)
    \/ \E state \in ExternalStates : ExternalChange(state)
    \/ HandleStateChangeEvent

Spec == Init /\ [][Next]_vars

\* the scene stack alone, with every scene and every name
NextScenes ==
    \/ \E name \in NameArgs : SetSceneActive(name)
    \/ \E name \in NameArgs : SetSceneInactive(name)
    \/ SetCustomActive
    \/ SetCustomInactive
    \/ \E state \in ExternalStates : ExternalChange(state)
    \/ HandleStateChangeEvent

SpecScenes == Init /\ [][NextScenes]_vars

\* the time offset alone, with a wide choice of arguments
NextTimeshift ==
    \/ \E v \in WideSetArgs : SetTimeshift(v)
    \/ \E d \in WideShiftArgs : ShiftTimeshift(d)

SpecTimeshift == Init /\ [][NextTimeshift]_vars

\* the recompute triggers while the wall clock moves
NextClock ==
    \/ Clock
    \/ Tick
    \/ \E name \in FewNames : SetSceneActive(name)
    \/ SetCustomActive
    \/ SetCustomInactive
    \/ \E v \in ClockTimeArgs : SetTimeshift(v)
    \/ \E d \in ClockTimeArgs : ShiftTimeshift(d)

SpecClock == Init /\ [][NextClock]_vars

\* the handlers step by step: the commands and the tick on the loop thread,
\* the state-change listener on the executor thread
NextThreads ==
    \/ \E name \in FewNames : SceneActivateEnter(name)
    \/ CustomDeactivateEnter
    \/ SceneCallbackReadTimeshift
    \/ \E v \in ClockTimeArgs : TimeshiftSetEnter(v)
    \/ \E d \in ClockTimeArgs : TimeshiftShiftEnter(d)
    \/ TickReadTimeshift
    \/ LoopReadScene
    \/ LoopUpdate
    \/ \E state \in ExternalStates : ExternalChange(state)
    \/ ListenerEnter
    \/ ListenerCallback

SpecThreads == Init /\ [][NextThreads]_vars

\* timelines of every kind, every query time
InitInterp ==
    /\ InitDevice
    /\ \E time \in QueryTimes :
          \/ \E attr_scene \in AttrScenes(BrightnessValues) \cup {HourScene} :
                probe = Probe(BRIGHTNESS, attr_scene, time)
          \/ \E attr_scene \in AttrScenes(ColorTempValues) :
                probe = Probe(COLOR_TEMP, attr_scene, time)
          \/ \E attr_scene \in AttrScenes(LightStateValues) :
                probe = Probe(LIGHT_STATE, attr_scene, time)

NextInterp == ValueAt

SpecInterp == InitInterp /\ [][NextInterp]_vars

\* the change check asked about every candidate against every live state
InitChanged ==
    /\ InitButLiveState
    /\ current_state \in PartialStates({0})
    /\ \E new_state \in PartialStates(CheckedTimes) : probe = CheckProbe(new_state)

NextChanged == HasChangedCall

SpecChanged == InitChanged /\ [][NextChanged]_vars

\* scenes constructed from every drawn name, priority and set of timelines
InitConstruct ==
    /\ InitDevice
    /\ \E name \in ConstructNames : \E priority \in ConstructPriorities :
          \E scene \in SceneArgs : probe = ConstructProbe(name, priority, scene)

NextConstruct == EntitySceneInit

SpecConstruct == InitConstruct /\ [][NextConstruct]_vars

\* the updates of two devices side by side
NextWrites ==
    \/ \E name \in FewNames : SetSceneActive(name)
    \/ Tick
    \/ \E s \in Slots : Begin(s)
    \/ \E s \in Slots : \E k \in SUPPORTED_ATTRIBUTES : WriteStep(s, k)
    \/ \E s \in Slots : WriteFail(s)
    \/ \E s \in Slots : Finish(s)
    \/ \E s \in Slots : Cancelled(s)
    \/ HandleStateChangeEvent
    \/ \E wanted_state \in PeerTargets : PeerScheduleUpdate(wanted_state)
    \/ PeerBegin
    \/ PeerEnd

SpecWrites == Init /\ [][NextWrites]_vars

\* the event loop runs every task that is ready, a service call that does not
\* fail returns, and every state-change event is delivered
SpecRetry ==
    /\ SpecWrites
    /\ WF_vars(HandleStateChangeEvent)
    /\ \A s \in Slots :
          /\ WF_vars(Begin(s))
          /\ WF_vars(Finish(s))
          /\ WF_vars(Cancelled(s))
          /\ \A k \in SUPPORTED_ATTRIBUTES : WF_vars(WriteStep(s, k))

\* the recompute triggers on a device that may be invalidated
NextRecompute ==
    \/ \E name \in FewNames : SetSceneActive(name)
    \/ \E v \in ClockTimeArgs : SetTimeshift(v)
    \/ Tick
    \/ Invalidate
    \/ \E s \in Slots : Begin(s)
    \/ \E s \in Slots : \E k \in SUPPORTED_ATTRIBUTES : WriteStep(s, k)
    \/ \E s \in Slots : Finish(s)
    \/ \E s \in Slots : Cancelled(s)
    \/ HandleStateChangeEvent

SpecRecompute == Init /\ [][NextRecompute]_vars

\* a command of the ServiceCoordinator handled by the event loop, which the
\* update loop has to release first
ServiceCall(op, arg, num, entry_ids) ==
    /\ update_loop = "waiting"
    /\ Batch(op, arg, num, entry_ids)

\* the update loop and the service calls of one event loop
NextCoordinator ==
    \/ AsyncUpdateEntities
    \/ \E entry_ids \in EntryIdLists : \E scene \in BatchNames :
          ServiceCall("set_scene_active", scene, 0, entry_ids)
    \/ \E entry_ids \in EntryIdLists : \E v \in BatchTimeArgs :
          ServiceCall("set_timeshift", "", v, entry_ids)

SpecCoordinator == Init /\ [][NextCoordinator]_vars

\* the batch commands over the fleet
NextBatch ==
    \E entry_ids \in EntryIdLists :
        \/ \E scene \in BatchNames : CoordSetSceneActive(entry_ids, scene)
        \/ \E scene \in BatchNames : CoordSetSceneInactive(entry_ids, scene)
        \/ CoordSetCustomActive(entry_ids)
        \/ CoordSetCustomInactive(entry_ids)
        \/ \E v \in BatchTimeArgs : CoordSetTimeshift(entry_ids, v)
        \/ \E d \in BatchTimeArgs : CoordShiftTimeshift(entry_ids, d)

SpecBatch == Init /\ [][NextBatch]_vars

\* ----- claims ------------------------------------------------------------
\* C1: a notification caused by the system's own write never comes to the
\* external-change callback, and a notification caused by an external change
\* that differs from the last known state always does
C1_OwnWritesNeverExternal ==
    last_op.op = "state_change"
    => /\ last_op.arg = "internal" => last_op.event # "callback"
       /\ last_op.arg = "external" /\ last_op.event # "unchanged" => last_op.event = "callback"

\* the update tasks that wait to start
Waiting(tk) == {t \in Slots : tk[t].st = "scheduled"}

\* C2: schedule calls that arrive before any of them starts leave exactly one
\* waiting request, the one with the last call's target state; a superseded
\* request never starts
C2_Debounce ==
    [][/\ last_op'.scheduled
          => /\ Waiting(tasks') = {pending_updates'}
             /\ ready' = <<pending_updates'>>
             /\ tasks'[pending_updates'].target
                    = WantedState(current_scene', custom_scene', timeshift')
             /\ ~tasks'[pending_updates'].stale
       /\ \A t \in Slots : tasks'[t].st \in {"running", "cancelling"} => ~tasks'[t].stale
       /\ \A t \in Slots : tasks[t].st = "scheduled" /\ tasks'[t].st = "running"
          => /\ Waiting(tasks) = {t}
             /\ pending_updates = t]_vars

\* a schedule call has replaced a request that was still waiting
C2_Witness ==
    /\ last_op.scheduled
    /\ last_op.replaced = 1
    /\ Cardinality(Waiting(tasks)) = 1

\* C7: an invalid device stays invalid; while it is invalid no update waits or
\* runs, the scheduler holds no entry for it, and nothing is written to the
\* device by the system
C7_InvalidationOneWay ==
    [][/\ ~valid => ~valid'
       /\ ~valid'
          => /\ \A t \in Slots : tasks'[t].st \in {"free", "cancelling"}
             /\ ready' = <<>>
             /\ pending_updates' = NoEntry
             /\ ~last_op'.scheduled
       /\ ~valid /\ Len(notes') > Len(notes)
          => notes'[Len(notes')].origin = "external"]_vars

\* a tick found the invalid device away from its wanted state, with the
\* cancelled write still unwinding, and scheduled nothing
C7_Witness ==
    /\ ~valid
    /\ last_op.op = "tick"
    /\ ~last_op.scheduled
    /\ WantedState(current_scene, custom_scene, timeshift) # Error
    /\ HasChanged(current_state, WantedState(current_scene, custom_scene, timeshift))
    /\ \E t \in Slots : tasks[t].st = "cancelling"

\* C8: every recompute looks the winning scene up at
\* (seconds since midnight + offset) mod 86400
C8_LookupAtWallClock ==
    last_op.lookup # NoLookup => last_op.lookup = (now + timeshift) % DAY

\* the winner is a member of the active set with the maximal priority
WinnerIsMax(active, winner) ==
    /\ InSeq(winner, active)
    /\ \A i \in 1..Len(active) : Priority(active[i]) <= Priority(winner)

\* C3: deactivate(name) of an ordinary scene leaves the scene out of the
\* active set (and, when it was the winner, a maximal remaining scene wins)
C3_DeactivateRemoves ==
    last_op.op = "set_scene_inactive" /\ last_op.error = "none"
    => /\ ~InSeq(last_op.arg, active_scenes)
       /\ WinnerIsMax(active_scenes, current_scene)

\* C4: after any sequence of activate, deactivate, activateCustom and
\* deactivateCustom the winner is a member of the active set and no active
\* scene has a higher priority
C4_WinnerIsMaxOfActive == WinnerIsMax(active_scenes, current_scene)

\* the scene of priority 100 was activated while the custom scene was winning:
\* two active scenes tie at the maximum
C4_Witness ==
    /\ last_op.op = "set_scene_active"
    /\ last_op.arg = "alarm"
    /\ InSeq("alarm", active_scenes)
    /\ current_scene = SCENE_CUSTOM
    /\ Len(active_scenes) >= 4

\* C5: an active custom scene is the winner; deactivateCustom removes it, makes
\* a maximal remaining scene the winner and fires the scene-change callback;
\* deactivateCustom without an active custom scene changes nothing and fires
\* nothing
C5_CustomOutranks ==
    [][/\ InSeq(SCENE_CUSTOM, active_scenes') => current_scene' = SCENE_CUSTOM
       /\ last_op'.op = "set_custom_inactive" /\ InSeq(SCENE_CUSTOM, active_scenes)
          => /\ active_scenes' = Remove(active_scenes, SCENE_CUSTOM)
             /\ WinnerIsMax(active_scenes', current_scene')
             /\ last_op'.notified = 1
       /\ last_op'.op = "set_custom_inactive" /\ ~InSeq(SCENE_CUSTOM, active_scenes)
          => /\ UNCHANGED <<valid, sceneVars, timeshift, stateVars, updVars, envVars>>
             /\ last_op'.notified = 0
             /\ ~last_op'.scheduled]_vars

\* the custom scene was deactivated with ordinary scenes active: the best of
\* them, priority 70, wins again
C5_Witness ==
    /\ last_op.op = "set_custom_inactive"
    /\ last_op.notified = 1
    /\ current_scene = "day"
    /\ InSeq("night", active_scenes)
    /\ InSeq("evening", active_scenes)

\* C6: a custom activation, by the command or by an external state change,
\* makes the custom scene the winner, fires no scene-change callback and
\* schedules no update
C6_CustomActivationSilent ==
    [][\/ last_op'.op = "set_custom_active"
       \/ last_op'.op = "state_change" /\ last_op'.event = "callback"
       => /\ current_scene' = SCENE_CUSTOM
          /\ InSeq(SCENE_CUSTOM, active_scenes')
          /\ custom_scene' = current_state'
          /\ last_op'.notified = 0
          /\ ~last_op'.scheduled
          /\ UNCHANGED updVars]_vars

\* an external change took the win from an ordinary scene whose update was
\* still waiting
C6_Witness ==
    /\ last_op.op = "state_change"
    /\ last_op.event = "callback"
    /\ current_scene = SCENE_CUSTOM
    /\ InSeq("day", active_scenes)
    /\ pending_updates \in Slots

\* C9: the time offset is inside [-43200, 43200) in every reachable state,
\* whatever integers set() and shift() were called with
C9_OffsetInRange == -HALF_DAY <= timeshift /\ timeshift < HALF_DAY

\* a shift by +12h from 0 has wrapped to -12h
C9_Witness ==
    /\ last_op.op = "shift_timeshift"
    /\ last_op.num = HALF_DAY
    /\ timeshift = -HALF_DAY

\* C10: set(v) leaves ((v + 43200) mod 86400) - 43200, shift(d) from x leaves
\* ((x + d + 43200) mod 86400) - 43200; shift(+13h) from +11h gives 0; set(+12h)
\* and set(-12h) give the same offset
C10_OffsetArithmetic ==
    [][/\ last_op'.op = "set_timeshift"
          => timeshift' = ((last_op'.num + 43200) % 86400) - 43200
       /\ last_op'.op = "shift_timeshift"
          => timeshift' = ((timeshift + last_op'.num + 43200) % 86400) - 43200
       /\ last_op'.op = "shift_timeshift" /\ timeshift = 11 * 3600 /\ last_op'.num = 13 * 3600
          => timeshift' = 0
       /\ last_op'.op = "set_timeshift" /\ last_op'.num \in {-HALF_DAY, HALF_DAY}
          => timeshift' = -HALF_DAY]_vars

\* a shift by +13h has ended at offset 0, so it started from +11h
C10_Witness ==
    /\ last_op.op = "shift_timeshift"
    /\ last_op.num = 13 * 3600
    /\ timeshift = 0

\* C11: a schedule call whose target equals the previously scheduled target
\* of the device cancels nothing: a request that waits is not replaced and a
\* write that runs is not cancelled
C11_SameTargetNoOp ==
    [][/\ last_op'.scheduled
       /\ pending_updates \in Slots
       /\ tasks'[pending_updates'].target = tasks[pending_updates].target
       => /\ last_op'.replaced = 0
          /\ tasks[pending_updates].st = "running"
             => tasks'[pending_updates].st = "running"]_vars

\* C12: a write that has begun is not interrupted by a cancel or by a newer
\* request, it ends only with every service call issued; a request cancelled
\* before it began writes nothing
C12_CooperativeCancel ==
    [][\A t \in Slots :
          /\ tasks[t].st = "cancelling" /\ tasks'[t].st = "free" => tasks[t].left = {}
          /\ tasks[t].st = "scheduled" /\ tasks'[t] # tasks[t] /\ tasks'[t].st # "running"
             => /\ tasks'[t].st \in {"free", "scheduled"}
                /\ tasks'[t].left = {}
                /\ dev' = dev]_vars

\* the steps of Entity._update after the wanted state is known
UpdateSteps == {"scene_update", "ts_update", "tick_update"}

\* C13: the wanted state of every recompute comes from a winner and an offset
\* that are the device's winner and offset at the moment the recompute has
\* read both, and that wanted state is what the recompute schedules
C13_NoTornPair ==
    [][/\ threads'[LOOP].at \in UpdateSteps /\ threads[LOOP].at \notin UpdateSteps
          => /\ threads'[LOOP].scene = current_scene'
             /\ threads'[LOOP].ts = timeshift'
             /\ threads'[LOOP].state = WantedState(current_scene', custom_scene', timeshift')
       /\ threads[LOOP].at \in UpdateSteps /\ threads'[LOOP].at = "idle" /\ last_op'.scheduled
          => tasks'[pending_updates'].target = threads[LOOP].state]_vars

\* a tick has read the offset and the winning ordinary scene while the
\* listener is about to make the custom scene the winner
C13_Witness ==
    /\ At(LOOP) = "tick_update"
    /\ threads[LOOP].scene = "evening"
    /\ At(EXECUTOR) = "ext_cb"

\* C14: no command blocks on a lock for ever: the loop thread inside a command
\* and the listener thread never wait for each other's lock
C14_NoLockWait == ~(Blocked(LOOP) /\ Blocked(EXECUTOR))


\* C15: a lookup at the time of a keyframe returns that keyframe's value
\* exactly, for the first, an inner and the last keyframe of any timeline,
\* and a timeline of one keyframe returns its value at every time of day
C15_KeyframeExact ==
    probe.done
    => /\ \A i \in 1..Len(probe.attr_scene) :
             probe.attr_scene[i].time = probe.time
             => /\ probe.result # Error
                /\ probe.result.value = probe.attr_scene[i].value
       /\ Len(probe.attr_scene) = 1
             => /\ probe.result # Error
                /\ probe.result.value = probe.attr_scene[1].value

C15_Witness ==
    /\ probe.done
    /\ Len(probe.attr_scene) = 3
    /\ probe.time = probe.attr_scene[3].time
    /\ probe.attr_scene[3].value # probe.attr_scene[1].value
    /\ probe.result # Error
    /\ probe.result.value = probe.attr_scene[3].value

C17_BrightnessBetweenKeyframes ==
    probe.done /\ probe.kind = BRIGHTNESS
    => LET n == Len(probe.attr_scene)
           t == probe.time
           Bounds(i) ==
               IF i < n
               THEN probe.attr_scene[i].time <= t /\ t < probe.attr_scene[i + 1].time
               ELSE t >= probe.attr_scene[n].time \/ t < probe.attr_scene[1].time
           Between(x, a, b) == (a <= x /\ x <= b) \/ (b <= x /\ x <= a)
       IN /\ probe.result # Error
          /\ probe.result.value \in BRIGHTNESS_MIN..BRIGHTNESS_MAX
          /\ \A i \in 1..n :
                Bounds(i)
                => Between(probe.result.value, probe.attr_scene[i].value,
                           probe.attr_scene[IF i < n THEN i + 1 ELSE 1].value)
          /\ probe.attr_scene = <<Attr(0, 0), Attr(255, 60)>> /\ t = 30
                => probe.result.value \in {127, 128}
          /\ probe.attr_scene = HourScene /\ t = 1800
                => probe.result.value = 100

C17_Witness ==
    /\ probe.done
    /\ probe.kind = BRIGHTNESS
    /\ probe.attr_scene = <<Attr(0, 0), Attr(255, 60)>>
    /\ probe.time = 30
    /\ probe.result # Error
    /\ probe.result.value = 127

\* C18: a lookup at a time earlier than the first keyframe returns the first
\* keyframe's value and a lookup at a time later than the last keyframe
\* returns the last keyframe's value (keyframes 10 s = 100 and 60 s = 200:
\* 100 at 0 s, 200 at 100 s)
C18_ClampedOutsideKeyframes ==
    probe.done /\ probe.kind # LIGHT_STATE
    => LET first == probe.attr_scene[1]
           last == probe.attr_scene[Len(probe.attr_scene)]
       IN /\ probe.time < first.time
             => probe.result # Error /\ probe.result.value = first.value
          /\ probe.time > last.time
             => probe.result # Error /\ probe.result.value = last.value

C20_StepFunction ==
    probe.done /\ probe.kind = LIGHT_STATE
    => LET n == Len(probe.attr_scene)
           atOrBefore == {i \in 1..n : probe.attr_scene[i].time <= probe.time}
           latest == IF atOrBefore = {} THEN n
                     ELSE CHOOSE i \in atOrBefore : \A j \in atOrBefore : j <= i
       IN /\ probe.result # Error
          /\ probe.result.value = probe.attr_scene[latest].value
          /\ \E i \in 1..n : probe.result.value = probe.attr_scene[i].value

C20_Witness ==
    /\ probe.done
    /\ probe.kind = LIGHT_STATE
    /\ probe.attr_scene = <<Attr("on", 10), Attr("off", 60)>>
    /\ probe.time = 0
    /\ probe.result # Error
    /\ probe.result.value = "off"

\* C21: activate(name) with an unknown name or with the reserved names off
\* and custom raises a scene-name error, activate(name) of a scene that is
\* already active raises nothing; in all these cases the active set and the
\* winner stay as they were, no scene-change callback fires and nothing is
\* scheduled
C21_RejectedActivateChangesNothing ==
    [][/\ last_op'.op = "set_scene_active"
       /\ \/ last_op'.arg \notin SceneNames
          \/ last_op'.arg \in {SCENE_OFF, SCENE_CUSTOM}
          \/ InSeq(last_op'.arg, active_scenes)
       => /\ UNCHANGED <<sceneVars, updVars>>
          /\ last_op'.notified = 0
          /\ ~last_op'.scheduled
          /\ last_op'.error = IF last_op'.arg \in SceneNames \ {SCENE_OFF, SCENE_CUSTOM}
                              THEN "none" ELSE "SceneNameError"]_vars

\* the winner was activated again
C21_Witness ==
    /\ last_op.op = "set_scene_active"
    /\ last_op.arg = "evening"
    /\ last_op.error = "none"
    /\ last_op.notified = 0
    /\ current_scene = "evening"

\* C22: activate(name) of a known scene that is not active appends it to the
\* active set; it becomes the winner and the scene-change callback fires
\* once exactly when its priority is strictly greater than the winner's,
\* otherwise the winner stays and no callback fires
C22_ActivateTakesOverIffHigher ==
    [][/\ last_op'.op = "set_scene_active"
       /\ last_op' # last_op
       /\ last_op'.arg \in SceneNames
       /\ ~InSeq(last_op'.arg, active_scenes)
       => /\ active_scenes' = Append(active_scenes, last_op'.arg)
          /\ custom_scene' = custom_scene
          /\ IF Priority(last_op'.arg) > Priority(current_scene)
             THEN current_scene' = last_op'.arg /\ last_op'.notified = 1
             ELSE current_scene' = current_scene /\ last_op'.notified = 0]_vars

\* a scene of priority 70 took the win from one of priority 40
C22_Witness ==
    /\ last_op.op = "set_scene_active"
    /\ last_op.arg = "day"
    /\ last_op.notified = 1
    /\ current_scene = "day"
    /\ InSeq("evening", active_scenes)

\* C23: in a batch command that names an id that is not loaded, or a scene
\* one of the named devices does not have, only that device's request is
\* dropped: the command is applied to every other device named and no error
\* leaves the command
C23_BatchAppliedToEveryOther ==
    [][LET last == fleet'.last
           unknown_id == \E i \in 1..Len(last.entry_ids) :
                            last.entry_ids[i] \notin ConfigEntities
           unknown_scene ==
               /\ last.op \in {"set_scene_active", "set_scene_inactive"}
               /\ \E id \in ConfigEntities :
                     InSeq(id, last.entry_ids) /\ last.arg \notin fleet.devices[id].names
       IN fleet' # fleet /\ (unknown_id \/ unknown_scene)
          => /\ last.raised = "none"
             /\ \A id \in ConfigEntities :
                   fleet'.devices[id] =
                       IF InSeq(id, last.entry_ids)
                       THEN EntityCall(fleet.devices[id], last.op, last.arg, last.num).entity
                       ELSE fleet.devices[id]]_vars

\* C24: a device write that raises ends its own update only: the task ends
\* without an error leaving it, the last known live state stays, the
\* internal-change flag is cleared, and every other update, of this device
\* or of another one, is neither cancelled nor changed
C24_WriteFailureContained ==
    [][\A s \in Slots :
          tasks[s].st = "running" /\ tasks[s].left # {} /\ tasks'[s].st = "free"
          => /\ last_op'.op = "write_failed" /\ last_op'.error = "none"
             /\ current_state' = current_state
             /\ internal_state_change' = FALSE
             /\ \A t \in Slots \ {s} : tasks'[t] = tasks[t]
             /\ ready' = ready
             /\ pending_updates' = IF pending_updates = s THEN NoTask ELSE pending_updates
             /\ peer_update' = peer_update
             /\ UNCHANGED <<valid, sceneVars, timeshift, prev_update_ids, envVars>>]_vars

\* a write failed while the update of another device was waiting
C24_Witness ==
    /\ last_op.op = "write_failed"
    /\ ~internal_state_change
    /\ tasks[last_op.num].st = "free"
    /\ peer_update.st = "scheduled"

C26_ScopeEndsWithFlagCleared ==
    [][\A s \in Slots :
          tasks[s].st \in {"running", "cancelling"} /\ tasks'[s].st = "free"
          => /\ internal_state_change' = FALSE
             /\ last_op'.op \in {"write_done", "write_failed", "write_cancelled"}
             /\ last_op'.error = "none"]_vars

\* a write that was cancelled while running has ended
C26_Witness ==
    /\ last_op.op = "write_cancelled"
    /\ ~internal_state_change
    /\ tasks[last_op.num].st = "free"

\* C27: has_changed(candidate) is true exactly when some kind of the candidate
\* is missing from the last-known state or has another value there (the times
\* are not compared), and the call leaves the last-known state as it was
C27_HasChangedIffMissingOrDifferent ==
    [][~probe.done /\ probe'.done
       => /\ probe'.result =
                (\E k \in DOMAIN probe.new_state :
                    \/ k \notin DOMAIN current_state
                    \/ current_state[k].value # probe.new_state[k].value)
          /\ current_state' = current_state]_vars

\* a candidate over fewer kinds than the last-known state, with the same
\* values at other times, was found unchanged
C27_Witness ==
    /\ probe.done
    /\ ~probe.result
    /\ DOMAIN probe.new_state # {}
    /\ DOMAIN probe.new_state # DOMAIN current_state
    /\ \E k \in DOMAIN probe.new_state : probe.new_state[k].time # current_state[k].time

\* C28: a scene is constructed exactly when its priority fits its name: 0..99
\* for an ordinary scene, 100 for the custom scene and for no other
C28_PriorityFitsName ==
    (probe.done /\ ValidateScene(probe.scene))
    => (probe.result.error = "none"
        <=> IF probe.name = SCENE_CUSTOM
            THEN probe.priority = MAX_PRIORITY
            ELSE 0 <= probe.priority /\ probe.priority <= MAX_PRIORITY - 1)

\* C29: constructing a scene from two timelines of the same kind, or from no
\* timeline, raises the validation error
C29_DuplicateKindRejected ==
    (/\ probe.done
     /\ \/ Len(probe.scene) = 0
        \/ \E i \in 1..Len(probe.scene) : \E j \in 1..Len(probe.scene) :
              i # j /\ probe.scene[i].type = probe.scene[j].type)
    => probe.result.error = "InputValidationError"

\* C30: every set(v) and every shift(d) calls the offset-change callback
\* exactly once, with the new normalized offset, also when that offset is the
\* one the device had before
C30_OffsetCallbackEveryTime ==
    [][last_op'.op \in {"set_timeshift", "shift_timeshift"}
       => /\ last_op'.ts_notified = 1
          /\ last_op'.lookup = timeshift'
          /\ timeshift' = IF last_op'.op = "set_timeshift"
                          THEN CorrectFor12h(last_op'.num)
                          ELSE CorrectFor12h(timeshift + last_op'.num)
          /\ -HALF_DAY <= timeshift' /\ timeshift' < HALF_DAY]_vars

\* a shift by two whole days back left the offset where it was, and the
\* callback ran with it
C30_Witness ==
    /\ last_op.op = "shift_timeshift"
    /\ last_op.num = -172800
    /\ last_op.ts_notified = 1
    /\ last_op.lookup = timeshift
    /\ timeshift # 0

\* C31: a recompute (by a tick, a scene change or an offset change) on a valid
\* device schedules an update of the wanted state exactly when that state
\* differs from the last known live state; otherwise, and on an invalidated
\* device always, the scheduler is left as it was
C31_SchedulesIffChanged ==
    [][last_op'.lookup # NoLookup
       => LET wanted_state == WantedState(current_scene', custom_scene', timeshift')
          IN IF wanted_state # Error /\ valid /\ HasChanged(current_state, wanted_state)
             THEN /\ pending_updates' \in Slots
                  /\ tasks'[pending_updates'].st = "scheduled"
                  /\ tasks'[pending_updates'].target = wanted_state
                  /\ ready' # <<>>
                  /\ ready'[Len(ready')] = pending_updates'
                  /\ \A t \in Slots \ {pending_updates'} : tasks'[t].st # "scheduled"
             ELSE UNCHANGED updVars]_vars

\* a tick on a valid device whose last known state is the wanted state
\* scheduled nothing, after a write of that state
C31_Witness ==
    /\ valid
    /\ last_op.op = "tick"
    /\ ~last_op.scheduled
    /\ current_scene = "evening"
    /\ current_state # InitialDevState
    /\ ~HasChanged(current_state, WantedState(current_scene, custom_scene, timeshift))
\* C32: the off scene is active in every reachable state, so the active set is
\* never empty, whatever activate, deactivate, activateCustom and
\* deactivateCustom calls (also with the name 'off') have been made
C32_OffAlwaysActive ==
    /\ InSeq(SCENE_OFF, active_scenes)
    /\ active_scenes # <<>>

\* a deactivate naming 'off' was refused while other scenes were active too
C32_Witness ==
    /\ last_op.op = "set_scene_inactive"
    /\ last_op.arg = SCENE_OFF
    /\ last_op.error = "SceneNameError"
    /\ Len(active_scenes) >= 3
\* the update tasks of the device that are neither cancelled nor finished
Outstanding(tk) == {t \in Slots : tk[t].st \in {"scheduled", "running"}}

\* C33: the device has at most one outstanding write in every reachable state,
\* and a schedule call leaves the request it has just registered as the only
\* one: the earlier request was cancelled before
C33_OneOutstandingWrite ==
    /\ Cardinality(Outstanding(tasks)) <= 1
    /\ last_op.scheduled => Outstanding(tasks) = {pending_updates}

\* a schedule call has replaced a write that was already running
C33_Witness ==
    /\ last_op.scheduled
    /\ \E t \in Slots : tasks[t].st = "cancelling" /\ tasks[t].left # {}
    /\ pending_updates \in Slots
    /\ tasks[pending_updates].st = "scheduled"
\* the index of the keyframe that bounds the looked-up time from before
\* (the last keyframe for the wrap pair)
ProbePrevIndex ==
    LET n == Len(probe.attr_scene)
        atOrBefore == {i \in 1..n : probe.attr_scene[i].time <= probe.time}
    IN IF atOrBefore = {} THEN n
       ELSE CHOOSE i \in atOrBefore : \A j \in atOrBefore : j <= i

\* the bounding pair of the looked-up time and the ratio num/den in [0, 1)
ProbePair ==
    LET n == Len(probe.attr_scene)
        i == ProbePrevIndex
        prev == probe.attr_scene[i]
        next == probe.attr_scene[IF i < n THEN i + 1 ELSE 1]
    IN [p |-> prev.value, n |-> next.value,
        num |-> (probe.time - prev.time) % DAY,
        den |-> IF i < n THEN next.time - prev.time ELSE next.time + DAY - prev.time]

Abs(x) == IF x < 0 THEN -x ELSE x

\* a numeric timeline of two or more keyframes has been looked up
NumericPairLookedUp ==
    /\ probe.done
    /\ probe.kind # LIGHT_STATE
    /\ Len(probe.attr_scene) >= 2
    /\ probe.result # Error

\* C34 as stated: the interpolated value r of a numeric kind is never farther
\* from the previous keyframe's value p than the exact value
\* p + (n - p) * ratio, for a rising and for a falling pair
C34_TruncatesTowardPrevious ==
    NumericPairLookedUp
    => LET b == ProbePair
       IN /\ 0 <= b.num /\ b.num < b.den
          /\ Abs(probe.result.value - b.p) * b.den <= Abs((b.n - b.p) * b.num)

\* C34 amended: the interpolated value never exceeds the exact value and is
\* never below the lower of the two keyframe values: the truncation is toward
\* the lower value, which is the previous keyframe's only on a rising pair
C34_TruncatesTowardLower ==
    NumericPairLookedUp
    => LET b == ProbePair
           r == probe.result.value
       IN /\ 0 <= b.num /\ b.num < b.den
          /\ r * b.den <= b.p * b.den + (b.n - b.p) * b.num
          /\ r >= (IF b.p <= b.n THEN b.p ELSE b.n)
          /\ b.n >= b.p => Abs(r - b.p) * b.den <= Abs((b.n - b.p) * b.num)
          /\ b.n < b.p => Abs(r - b.n) * b.den <= Abs((b.p - b.n) * (b.den - b.num))

\* a falling pair looked up where the exact value is no integer: the result
\* is below it, farther from the previous value
C34_Witness ==
    /\ NumericPairLookedUp
    /\ ProbePair.n < ProbePair.p
    /\ probe.result.value * ProbePair.den
          < ProbePair.p * ProbePair.den + (ProbePair.n - ProbePair.p) * ProbePair.num
\* C35: when a write of the device has executed the last known live state
\* equals the written target, and a tick that runs while a notification of
\* the device's own writes is still to be delivered, the device already
\* showing the wanted state, schedules nothing
C35_WriteUpdatesLastKnown ==
    [][/\ last_op'.op = "write_done"
          => ~HasChanged(current_state', tasks[last_op'.num].target)
       /\ /\ last_op'.op = "tick"
          /\ valid
          /\ notes # <<>>
          /\ \A i \in 1..Len(notes) : notes[i].origin = "internal"
          /\ WantedState(current_scene, custom_scene, timeshift) # Error
          /\ ~HasChanged(dev, WantedState(current_scene, custom_scene, timeshift))
          => ~last_op'.scheduled]_vars
\* the operation just done was a recompute on the valid device that found the
\* wanted state equal to the last known live state and scheduled nothing
RecomputeFoundNoChange ==
    /\ last_op.lookup # NoLookup
    /\ ~last_op.scheduled
    /\ valid
    /\ WantedState(current_scene, custom_scene, timeshift) # Error
    /\ ~HasChanged(current_state, WantedState(current_scene, custom_scene, timeshift))

\* a service call of a write whose target differs from the wanted state is
\* made in this step
StaleWriteApplied ==
    \E t \in Slots :
        /\ tasks[t].st = "running"
        /\ tasks'[t].st = "running"
        /\ tasks'[t].left # tasks[t].left
        /\ HasChanged(tasks[t].target, WantedState(current_scene, custom_scene, timeshift))

\* C36: right after a recompute that found the wanted state equal to the last
\* known live state, and so scheduled nothing, no write left over from an
\* earlier recompute with another target is applied
C36_NoStaleWriteAfterNoChange ==
    [][RecomputeFoundNoChange => ~StaleWriteApplied]_vars
\* a write task starts, or makes one of its service calls, in this step
WriteProgresses ==
    \E t \in Slots :
        \/ tasks[t].st = "scheduled" /\ tasks'[t].st = "running"
        \/ /\ tasks[t].st = "running"
           /\ tasks'[t].st = "running"
           /\ tasks'[t].left # tasks[t].left

\* C37: while the custom scene is the winner no write to the device starts or
\* makes a service call (so an update scheduled before the custom scene was
\* activated never executes), and a tick schedules nothing
C37_NoWriteWhileCustom ==
    [][current_scene = SCENE_CUSTOM /\ current_scene' = SCENE_CUSTOM
       => /\ ~WriteProgresses
          /\ last_op'.op = "tick" => ~last_op'.scheduled]_vars
\* C38: with any offset in [-43200, 43200) a recompute ends without a
\* validation error and every attribute of the wanted state is inside the
\* valid range of its kind
C38_RecomputeInRange ==
    last_op.lookup # NoLookup /\ -HALF_DAY <= timeshift /\ timeshift < HALF_DAY
    => LET wanted_state == WantedState(current_scene, custom_scene, timeshift)
       IN /\ last_op.error # "ValueError"
          /\ wanted_state # Error
          /\ \A k \in DOMAIN wanted_state : ValidateValue(k, wanted_state[k].value)
\* C39: a pass of the periodic update loop calls update() on every device of
\* the configuration, also when the update of one of them raised
C39_PassUpdatesEveryEntity ==
    fleet.last.op = "update"
    => \A id \in ConfigEntities : InSeq(id, fleet.last.entry_ids)

\* C40: after every pass, also one that raised, the update loop is suspended
\* in its sleep of one update interval, so the next pass never starts without
\* the event loop having had the chance to run other tasks
C40_LoopSleepsAfterEveryPass ==
    fleet.last.op = "update" => update_loop = "waiting"
====
